---- MODULE Spec2Model ----
(***************************************************************************)
(* Model of job_board/models.py: the Job lifecycle (activate, expire,      *)
(* format_country) over a persisted row and per-request in-memory copies,  *)
(* and the post_save hook that provisions a SiteConfig for a Site.         *)
(***************************************************************************)
EXTENDS Integers, Sequences, FiniteSets, TLC

VARIABLES
    now,        \* the next value timezone.now() returns
    row,        \* the persisted Job record: [paid_at, expired_at]
    saves,      \* number of Job.save() calls made so far
    site,       \* Job.site
    country,    \* Job.country (a Country or None)
    location,   \* Job.location (free text)
    self,       \* per request: its in-memory Job instance, or NotLoaded
    pc,         \* per request: position in the running method
    sc,         \* per request: the local variable sc of expire()
    op,         \* per request: the last method called
    ret,        \* per request: what that call returned (or raised)
    outbox,     \* the send_mail() calls made, in order
    domain,     \* Site.domain per site, or NoSite
    configs,    \* the SiteConfig table, in primary-key order
    hooked      \* the last run of generate_site_config: its event and kwargs

vars == <<now, row, saves, site, country, location, self, pc, sc, op, ret,
          outbox, domain, configs, hooked>>

jobVars == <<now, row, saves, site, country, location, self, pc, sc, op, ret,
             outbox>>

siteVars == <<domain, configs, hooked>>

----------------------------------------------------------------------------
(* Bounds *)

\* timezone.now() is called at most MaxClock times
MaxClock == 4

\* the SiteConfig table holds at most MaxConfigs rows
MaxConfigs == 2

Requests == {"r1", "r2"}

Sites == {"s1", "s2"}

Domains == {"a.test", "b.test"}

----------------------------------------------------------------------------
(* Values *)

\* a DateTimeField(null=True) holding NULL; timestamps are 1, 2, ...
Null == 0

None == [none |-> TRUE]

NotLoaded == [loaded |-> FALSE]

NoSite == "-"

\* Job.email
JobEmail == "hr@acme.test"

\* SiteConfig.expire_after default
expire_after_default == 30

Country(n) == [name |-> n]

Countries == {Country("France"), Country("")}

Locations == {"", "EU timezone"}

\* the field default of SiteConfig.admin_email, not overridden
AdminEmailDefault(d) == "admin@site"

\* 'admin@%s' % site.domain
AdminEmailFor(d) == "admin@" \o d

\* values an admin may type into SiteConfig.admin_email
AdminEmails == {"ops@x.test"} \cup {AdminEmailFor(d) : d \in Domains}

SiteConfig(s, e) == [site |-> s, admin_email |-> e,
                     expire_after |-> expire_after_default]

Instance(p, e) == [loaded |-> TRUE, paid_at |-> p, expired_at |-> e]

----------------------------------------------------------------------------
(* Queries *)

\* site.siteconfig_set: the SiteConfig rows of a site, by primary key
siteconfig_set(s) == SelectSeq(configs, LAMBDA c : c.site = s)

\* QuerySet.first(): the first row, or None
first(q) == IF Len(q) = 0 THEN None ELSE Head(q)

\* format_country with the two tests in the other order
format_country_location_first(c, l) ==
    IF Len(l) > 0
      THEN "Anywhere*"
      ELSE IF c # None THEN c.name ELSE "Anywhere"

\* Job.format_country
format_country(c, l) ==
    IF c # None
      THEN c.name
      ELSE IF Len(l) > 0 THEN "Anywhere*" ELSE "Anywhere"

\* rows get_or_create looks up: both site and admin_email must match
Matching(s, e) == SelectSeq(configs, LAMBDA c : c.site = s /\ c.admin_email = e)

----------------------------------------------------------------------------
(* Job: the request loads the row, then calls methods on its instance *)

\* activate() without its check
activate_unguarded(j) == TRUE

\* the condition of activate(): self.paid_at is None
activate_guard(j) == j.paid_at = Null

\* expire() checking expired_at only
expire_guard_unpaid(j) == j.expired_at = Null

\* expire() checking the persisted row instead of its own instance
expire_guard_row(j) == row.paid_at # Null /\ row.expired_at = Null

\* the condition of expire(): paid and not yet expired
expire_guard(j) == j.paid_at # Null /\ j.expired_at = Null

\* Model.save(): every field of the instance is written to the row
save(j) == [paid_at |-> j.paid_at, expired_at |-> j.expired_at]

\* the send_mail() call of expire(); delivery may silently fail
Mail(r, sender, delivered) ==
    [by |-> r, sender |-> sender, recipient |-> JobEmail, delivered |-> delivered]

\* Job.objects.get(...): a request obtains its own instance of the row
Load(r) ==
    /\ pc[r] = "ready"
    /\ self' = [self EXCEPT ![r] = Instance(row.paid_at, row.expired_at)]
    /\ op' = [op EXCEPT ![r] = "load"]
    /\ ret' = [ret EXCEPT ![r] = "none"]
    /\ UNCHANGED <<now, row, saves, site, country, location, pc, sc, outbox>>
    /\ UNCHANGED siteVars

Activate(r) ==
    /\ pc[r] = "ready"
    /\ self[r] # NotLoaded
    /\ op' = [op EXCEPT ![r] = "activate"]
    /\ IF activate_guard(self[r])
         THEN /\ now <= MaxClock
              /\ self' = [self EXCEPT ![r].paid_at = now]
              /\ now' = now + 1
              /\ row' = save(self'[r])
              /\ saves' = saves + 1
              /\ ret' = [ret EXCEPT ![r] = "True"]
         ELSE /\ ret' = [ret EXCEPT ![r] = "False"]
              /\ UNCHANGED <<now, row, saves, self>>
    /\ UNCHANGED <<site, country, location, pc, sc, outbox>>
    /\ UNCHANGED siteVars

\* expire(), lines 144-146: the check and the SiteConfig lookup
ExpireBegin(r) ==
    /\ pc[r] = "ready"
    /\ self[r] # NotLoaded
    /\ op' = [op EXCEPT ![r] = "expire"]
    /\ IF expire_guard(self[r])
         THEN /\ now <= MaxClock
              /\ sc' = [sc EXCEPT ![r] = first(siteconfig_set(site))]
              /\ pc' = [pc EXCEPT ![r] = "save"]
              /\ ret' = [ret EXCEPT ![r] = "none"]
         ELSE /\ ret' = [ret EXCEPT ![r] = "False"]
              /\ UNCHANGED <<sc, pc>>
    /\ UNCHANGED <<now, row, saves, site, country, location, self, outbox>>
    /\ UNCHANGED siteVars

\* expire(), lines 147-148: stamp expired_at and save
ExpireSave(r) ==
    /\ pc[r] = "save"
    /\ self' = [self EXCEPT ![r].expired_at = now]
    /\ now' = now + 1
    /\ row' = save(self'[r])
    /\ saves' = saves + 1
    /\ pc' = [pc EXCEPT ![r] = "send"]
    /\ UNCHANGED <<site, country, location, sc, op, ret, outbox>>
    /\ UNCHANGED siteVars

\* expire(), lines 149-156: sc.admin_email raises AttributeError when sc is
\* None; otherwise send_mail(fail_silently=True) and return True
ExpireSend(r) ==
    /\ pc[r] = "send"
    /\ pc' = [pc EXCEPT ![r] = "ready"]
    /\ IF sc[r] = None
         THEN /\ ret' = [ret EXCEPT ![r] = "AttributeError"]
              /\ UNCHANGED outbox
         ELSE /\ \E delivered \in BOOLEAN :
                    outbox' = Append(outbox, Mail(r, sc[r].admin_email, delivered))
              /\ ret' = [ret EXCEPT ![r] = "True"]
    /\ sc' = [sc EXCEPT ![r] = None]
    /\ UNCHANGED <<now, row, saves, site, country, location, self, op>>
    /\ UNCHANGED siteVars

FormatCountry(r) ==
    /\ pc[r] = "ready"
    /\ self[r] # NotLoaded
    /\ op' = [op EXCEPT ![r] = "format_country"]
    /\ ret' = [ret EXCEPT ![r] = format_country(country, location)]
    /\ UNCHANGED <<now, row, saves, site, country, location, self, pc, sc, outbox>>
    /\ UNCHANGED siteVars

----------------------------------------------------------------------------
(* Site: saving a Site fires post_save, which runs generate_site_config *)

\* kwargs.get('created', True)
created_or_default(created) == IF created = "absent" THEN TRUE ELSE created = "True"

\* SiteConfig.objects.get_or_create(site=site, admin_email=...): one matching
\* row is returned, none is created; several raise MultipleObjectsReturned
get_or_create(s, e) ==
    IF Len(Matching(s, e)) = 0
      THEN /\ Len(configs) < MaxConfigs
           /\ configs' = Append(configs, SiteConfig(s, e))
      ELSE UNCHANGED configs

\* generate_site_config(sender, instance=s, created=...), after the Site row
\* has been written with domain d
generate_site_config(s, d, created) ==
    IF created_or_default(created)
      THEN get_or_create(s, AdminEmailFor(d))
      ELSE UNCHANGED configs

\* Site(domain=d).save() of a new Site: INSERT, then post_save(created=True)
SiteCreate(s, d) ==
    /\ domain[s] = NoSite
    /\ domain' = [domain EXCEPT ![s] = d]
    /\ generate_site_config(s, d, "True")
    /\ hooked' = [event |-> "create", site |-> s, created |-> "True"]
    /\ UNCHANGED jobVars

\* save() of an existing Site with a new domain: UPDATE, then
\* post_save(created=False)
SiteUpdate(s, d) ==
    /\ domain[s] \notin {NoSite, d}
    /\ domain' = [domain EXCEPT ![s] = d]
    /\ generate_site_config(s, d, "False")
    /\ hooked' = [event |-> "update", site |-> s, created |-> "False"]
    /\ UNCHANGED jobVars

\* the hook run again for an existing Site, created True or not passed
HookInvoke(s, created) ==
    /\ domain[s] # NoSite
    /\ created \in {"True", "absent"}
    /\ generate_site_config(s, domain[s], created)
    /\ hooked' = [event |-> "signal", site |-> s, created |-> created]
    /\ UNCHANGED domain
    /\ UNCHANGED jobVars

\* the admin edits admin_email of the i-th SiteConfig
AdminEdit(i, e) ==
    /\ i \in 1..Len(configs)
    /\ configs[i].admin_email # e
    /\ configs' = [configs EXCEPT ![i].admin_email = e]
    /\ UNCHANGED <<domain, hooked>>
    /\ UNCHANGED jobVars

----------------------------------------------------------------------------
(* Specifications *)

\* SiteConfig tables that SpecSite reaches (SiteTableReached below): for the
\* job's site none, one, one behind another site's, and several
SiteTables ==
    { <<>>,
      <<SiteConfig("s1", AdminEmailFor("a.test"))>>,
      <<SiteConfig("s2", AdminEmailFor("b.test")), SiteConfig("s1", "ops@x.test")>>,
      <<SiteConfig("s1", "ops@x.test"), SiteConfig("s1", AdminEmailFor("a.test"))>> }

\* a Job as created (unpaid, unexpired, no request holding it yet), on a
\* site with one of the SiteConfig tables above
Init ==
    /\ now = 1
    /\ row = [paid_at |-> Null, expired_at |-> Null]
    /\ saves = 0
    /\ site = "s1"
    /\ country \in Countries \cup {None}
    /\ location \in Locations
    /\ self = [r \in Requests |-> NotLoaded]
    /\ pc = [r \in Requests |-> "ready"]
    /\ sc = [r \in Requests |-> None]
    /\ op = [r \in Requests |-> "none"]
    /\ ret = [r \in Requests |-> "none"]
    /\ outbox = <<>>
    /\ domain = [s \in Sites |-> IF s = "s1" THEN "a.test" ELSE "b.test"]
    /\ configs \in SiteTables
    /\ hooked = None

\* the same Job, and the sites as the program finds them: the job's site
\* exists already, without a SiteConfig (only saves with created=False were
\* seen for it); the other site may not exist yet
InitSite ==
    /\ now = 1
    /\ row = [paid_at |-> Null, expired_at |-> Null]
    /\ saves = 0
    /\ site = "s1"
    /\ country \in Countries \cup {None}
    /\ location \in Locations
    /\ self = [r \in Requests |-> NotLoaded]
    /\ pc = [r \in Requests |-> "ready"]
    /\ sc = [r \in Requests |-> None]
    /\ op = [r \in Requests |-> "none"]
    /\ ret = [r \in Requests |-> "none"]
    /\ outbox = <<>>
    /\ domain \in [Sites -> Domains \cup {NoSite}]
    /\ domain[site] # NoSite
    /\ configs = <<>>
    /\ hooked = None

NextJob ==
    \E r \in Requests :
        \/ Load(r)
        \/ Activate(r)
        \/ ExpireBegin(r)
        \/ ExpireSave(r)
        \/ ExpireSend(r)
        \/ FormatCountry(r)

NextSite ==
    \/ \E s \in Sites, d \in Domains : SiteCreate(s, d)
    \/ \E s \in Sites, d \in Domains : SiteUpdate(s, d)
    \/ \E s \in Sites, c \in {"True", "absent"} : HookInvoke(s, c)
    \/ \E i \in 1..MaxConfigs, e \in AdminEmails : AdminEdit(i, e)

\* Site provisioning: the hook, site saves and admin edits, from sites
\* without a SiteConfig.  No Job method writes domain or configs.
SpecSite == InitSite /\ [][NextSite]_vars

\* The Job lifecycle: requests load the job and call its methods, over each
\* of the SiteConfig tables above.  No site action writes a Job variable, and
\* expire() reads the table once, in ExpireBegin.
Spec == Init /\ [][NextJob]_vars

\* every table of SiteTables is reachable under SpecSite
SiteTableReached(t) ==
    /\ domain = [s \in Sites |-> IF s = "s1" THEN "a.test" ELSE "b.test"]
    /\ configs = t

----------------------------------------------------------------------------
(* Claims about Job.activate *)

MailsBy(r) == Len(SelectSeq(outbox, LAMBDA m : m.by = r))

\* C1: activate() on an instance whose paid_at is unset sets paid_at to a
\* non-null timestamp, saves the job and returns True; activate() on an
\* instance whose paid_at is set (so every second call) returns False, saves
\* nothing and leaves paid_at and expired_at as they were.
C1_Activate ==
    [][\A r \in Requests :
         Activate(r) =>
           /\ self'[r].paid_at # Null
           /\ IF self[r].paid_at = Null
                THEN /\ ret'[r] = "True"
                     /\ saves' = saves + 1
                     /\ row'.paid_at = self'[r].paid_at
                     /\ row'.expired_at = self[r].expired_at
                ELSE /\ ret'[r] = "False"
                     /\ saves' = saves
                     /\ row' = row
                     /\ self'[r] = self[r]]_vars

\* a request activated the job and then called activate() again
C1_Witness ==
    \E r \in Requests :
        /\ op[r] = "activate" /\ ret[r] = "False"
        /\ saves = 1 /\ row.paid_at # Null /\ row.paid_at = self[r].paid_at
        /\ \A q \in Requests \ {r} : self[q] = NotLoaded

----------------------------------------------------------------------------
(* Claims about Job.expire *)

\* C2: expire() on an instance with paid_at set and expired_at unset sets
\* expired_at, returns True and sends exactly one notification; expire() on
\* an instance already expired returns False and sends nothing.
C2_ExpireOnce ==
    [][\A r \in Requests :
         /\ ExpireSave(r) => self'[r].expired_at # Null /\ row'.expired_at # Null
         /\ ExpireSend(r) => ret'[r] = "True" /\ MailsBy(r)' = MailsBy(r) + 1
         /\ (ExpireBegin(r) /\ self[r].expired_at # Null) =>
                /\ ret'[r] = "False" /\ pc'[r] = "ready"
                /\ outbox' = outbox /\ row' = row]_vars

\* C3: expire() on an instance whose paid_at is unset returns False, leaves
\* paid_at and expired_at null, saves nothing and sends no notification.
C3_ExpireUnpaid ==
    [][\A r \in Requests :
         (ExpireBegin(r) /\ self[r].paid_at = Null) =>
            /\ ret'[r] = "False" /\ pc'[r] = "ready"
            /\ self'[r].paid_at = Null /\ self'[r].expired_at = Null
            /\ row' = row /\ saves' = saves /\ outbox' = outbox]_vars

\* expire() was called on a job never paid
C3_Witness ==
    \E r \in Requests :
        /\ op[r] = "expire" /\ ret[r] = "False"
        /\ self[r].paid_at = Null /\ row.paid_at = Null /\ saves = 0

\* C4: expired_at is set only if paid_at is set, in the persisted row and in
\* every in-memory instance.
C4_ExpiredOnlyIfPaid ==
    /\ row.expired_at # Null => row.paid_at # Null
    /\ \A r \in Requests :
         self[r] # NotLoaded =>
            (self[r].expired_at # Null => self[r].paid_at # Null)

\* the job has been expired, in the row and in the instance that expired it
C4_Witness ==
    \E r \in Requests :
        /\ row.expired_at # Null
        /\ self[r] # NotLoaded /\ self[r].expired_at = row.expired_at

\* C5: in the persisted row, paid_at once set is never cleared and
\* expired_at once set is never cleared, whatever the interleaving of
\* requests working on their own instances.
C5_RowOnlyForward ==
    [][/\ row.paid_at # Null => row'.paid_at # Null
       /\ row.expired_at # Null => row'.expired_at # Null]_vars

\* C9: expire() decides on the request's own instance alone: whenever that
\* instance is paid and unexpired the call passes the check and goes on to
\* save and send, whatever the persisted row says by then; so two requests
\* holding such instances both pass, both return True and both send.
C9_ExpireChecksOwnInstance ==
    [][\A r \in Requests :
         (ExpireBegin(r) /\ self[r].paid_at # Null /\ self[r].expired_at = Null) =>
            /\ pc'[r] = "save"
            /\ sc'[r] = first(siteconfig_set(site))
            /\ row' = row /\ self' = self]_vars

\* both requests returned True from expire() and the mail went out twice
C9_Witness ==
    /\ \A r \in Requests :
         /\ op[r] = "expire" /\ ret[r] = "True" /\ pc[r] = "ready"
         /\ MailsBy(r) = 1
    /\ Len(outbox) = 2
    /\ self["r1"].paid_at = self["r2"].paid_at
    /\ self["r1"].expired_at # self["r2"].expired_at

\* C10: every expire() call that saved expired_at has returned True after one
\* send whose sender is the admin_email of the first SiteConfig of the job's
\* site and whose recipient is the job's email, whatever the number of
\* SiteConfig rows of the site.
C10_ExpireAlwaysSends ==
    \A r \in Requests :
        (op[r] = "expire" /\ pc[r] = "ready" /\ ret[r] # "False") =>
            /\ ret[r] = "True"
            /\ MailsBy(r) >= 1
            /\ \A i \in 1..Len(outbox) :
                 outbox[i].by = r =>
                    /\ outbox[i].sender = first(siteconfig_set(site)).admin_email
                    /\ outbox[i].recipient = JobEmail

----------------------------------------------------------------------------
(* Claim about Job.format_country *)

\* C8: format_country() changes nothing and returns the Country's name when
\* a Country is set, whatever the location; otherwise "Anywhere*" when the
\* location is not empty; otherwise "Anywhere".
C8_FormatCountry ==
    [][\A r \in Requests :
         FormatCountry(r) =>
            /\ UNCHANGED <<now, row, saves, site, country, location, self,
                           outbox, domain, configs>>
            /\ country # None => ret'[r] = country.name
            /\ (country = None /\ location # "") => ret'[r] = "Anywhere*"
            /\ (country = None /\ location = "") => ret'[r] = "Anywhere"]_vars

\* format_country() was called with a Country set and a location given
C8_Witness ==
    \E r \in Requests :
        /\ op[r] = "format_country"
        /\ country = Country("France") /\ location = "EU timezone"
        /\ ret[r] = "France"

----------------------------------------------------------------------------
(* Claims about generate_site_config *)

\* C6: creating a new Site (post_save with created=True) leaves exactly one
\* SiteConfig for that site, with admin_email "admin@" + the site's domain
\* and expire_after 30.
C6_NewSiteGetsConfig ==
    [][\A s \in Sites, d \in Domains :
         SiteCreate(s, d) =>
            siteconfig_set(s)' =
               <<[site |-> s, admin_email |-> "admin@" \o d, expire_after |-> 30]>>]_vars

\* a Site has just been created and its SiteConfig is there
C6_Witness ==
    /\ hooked # None
    /\ hooked.event = "create"
    /\ Len(siteconfig_set(hooked.site)) = 1
    /\ siteconfig_set(hooked.site)[1].admin_email = "admin@" \o domain[hooked.site]

\* C7: the hook is idempotent: once it has run for a site with created True
\* or absent, that site has exactly one SiteConfig, and keeps exactly one
\* through further hook runs, admin edits of admin_email and domain changes.
C7_ExactlyOneSiteConfig ==
    [][\A s \in Sites :
         (\/ \E d \in Domains : SiteCreate(s, d)
          \/ \E c \in {"True", "absent"} : HookInvoke(s, c)
          \/ Len(siteconfig_set(s)) >= 1)
         => Len(siteconfig_set(s))' = 1]_vars

====
